---------------------------- MODULE Spec2Model ----------------------------
(***************************************************************************)
(* A model of the memora utility scripts:                                  *)
(*   - benchmarks/locomo_helpers/dump_references.py  (LoCoMo dumper)       *)
(*   - benchmarks/mab_helpers/dump_references.py     (MemoryAgentBench)    *)
(*   - scripts/aws/templates/bge_reranker/inference.py (inference handler) *)
(*                                                                         *)
(* One process runs one program, chosen in Init by prog:                   *)
(*   "normalize"  one call of the LoCoMo _normalize_example                *)
(*   "locomo"     the LoCoMo dumper's main                                 *)
(*   "mab"        the MemoryAgentBench load_references                     *)
(*   "serve"      the handler pipeline model_fn, input_fn, predict_fn,     *)
(*                output_fn driven serially by the hosting platform        *)
(*   "model"      model_fn called serially, the environment changing       *)
(*   "threads"    model_fn called by callers that may interleave           *)
(*                                                                         *)
(* Python values are records [t |-> tag, v |-> payload]; a Python str is   *)
(* the sequence of its characters, a list the sequence of its items, a     *)
(* dict the sequence of its <<key, value>> pairs in insertion order.       *)
(***************************************************************************)
EXTENDS Integers, Sequences, FiniteSets, TLC

VARIABLES
  prog,        \* the program this process runs
  \* one call of _normalize_example
  ex,          \* the raw example
  idx,         \* its index
  rec,         \* the records returned (none before the call)
  \* the LoCoMo dumper's main
  args,        \* the parsed command line
  pc,          \* where main is
  raw,         \* the loaded examples
  source_tag,
  i,           \* the loop index of enumerate(raw)
  normalized,  \* the records appended so far
  loads,       \* how often each loader ran
  stderr,      \* the messages written to stderr
  stdout,      \* the messages written to stdout
  exit_code,   \* the process's exit code (-1 while it runs)
  made_dirs,   \* the directories os.makedirs created
  out_file,    \* what was written to args.out (None before)
  \* the MemoryAgentBench load_references
  source_pattern,
  consumed,    \* how many dataset entries the for loop has taken
  cur,         \* the iteration's locals: src, questions, answers, qids, qtypes, context, n
  mi,          \* the loop index of range(n)
  mpc,         \* where load_references is
  refs,        \* the records appended so far
  expected,    \* history: the records the entries taken so far are to give
  \* the inference handler: model_fn
  MODEL,       \* the module global _MODEL
  env,         \* os.environ: HF_MODEL_ID and MAX_INPUT_LENGTH
  cuda,        \* torch.cuda.is_available(), a fact of the host
  env_changes, \* how often the environment was changed
  calls,       \* how many model_fn calls were started
  cpc,         \* where each caller's model_fn call is
  local,       \* each caller's constructed CrossEncoder, before it is assigned
  constructs,  \* how many CrossEncoder handles were constructed
  env_reads,   \* how often model_fn read the environment
  returned,    \* the handles model_fn calls returned, in order
  raced,       \* history: a call passed the None check while another was
               \* between its own check and its assignment
  \* the inference handler: one request after another
  spc,         \* where the request pipeline is
  request,     \* the request: body, content type, accept
  data,        \* what input_fn gave
  scores,      \* what predict_fn gave
  predict_calls, \* how often model.predict was invoked
  response,    \* what output_fn gave
  served       \* how many requests were taken

normVars == <<ex, idx, rec>>
mainVars == <<args, pc, raw, source_tag, i, normalized, loads, stderr, stdout,
              exit_code, made_dirs, out_file>>
mabVars == <<source_pattern, consumed, cur, mi, mpc, refs, expected>>
modelVars == <<MODEL, env, cuda, env_changes, calls, cpc, local, constructs, env_reads,
               returned, raced>>
serveVars == <<spc, request, data, scores, predict_calls, response, served>>
vars == <<prog, normVars, mainVars, mabVars, modelVars, serveVars>>

(***************************************************************************)
(* Bounds of the model.                                                    *)
(***************************************************************************)
MaxIdx == 2
MaxExamples == 2
MaxEntries == 2
MaxArr == 2
MaxRequests == 1
MaxCalls == 3
MaxEnvChanges == 1
MaxThreads == 2

(***************************************************************************)
(* Python values.                                                          *)
(***************************************************************************)
NoneV == [t |-> "none", v |-> 0]
BoolV(b) == [t |-> "bool", v |-> b]
IntV(n) == [t |-> "int", v |-> n]
StrV(cs) == [t |-> "str", v |-> cs]
ListV(items) == [t |-> "list", v |-> items]
DictV(pairs) == [t |-> "dict", v |-> pairs]

IsNone(x) == x.t = "none"

\* k in d, for a dict d
HasKey(d, k) == \E j \in 1..Len(d.v) : d.v[j][1] = k

\* d[k], for a dict d holding k
Get(d, k) == d.v[CHOOSE j \in 1..Len(d.v) : d.v[j][1] = k][2]

\* d.get(k, default)
GetOr(d, k, default) == IF HasKey(d, k) THEN Get(d, k) ELSE default

\* Python truthiness: bool(x)
Truthy(x) ==
  CASE x.t = "none" -> FALSE
    [] x.t = "bool" -> x.v
    [] x.t = "int" -> x.v # 0
    [] OTHER -> Len(x.v) > 0

\* needle in hay, for two strs (character sequences)
Contains(hay, needle) ==
  \E j \in 0..(Len(hay) - Len(needle)) :
    \A k \in 1..Len(needle) : hay[j + k] = needle[k]

\* The characters of the dict keys whose text the programs can show or search
KeyChars(k) ==
  CASE k = "query" -> <<"q", "u", "e", "r", "y">>
    [] k = "passages" -> <<"p", "a", "s", "s", "a", "g", "e", "s">>
    [] k = "value" -> <<"v", "a", "l", "u", "e">>
    [] OTHER -> <<"k">>

Digit(n) == <<"0", "1", "2", "3", "4", "5", "6", "7", "8", "9">>[n + 1]

RECURSIVE NatStr(_)
NatStr(n) == IF n < 10 THEN <<Digit(n)>> ELSE NatStr(n \div 10) \o <<Digit(n % 10)>>

\* str(n) for an int
IntStr(n) == IF n < 0 THEN <<"-">> \o NatStr(0 - n) ELSE NatStr(n)

RECURSIVE Join(_, _)
\* sep.join(parts)
Join(parts, sep) ==
  IF Len(parts) = 0 THEN <<>>
  ELSE IF Len(parts) = 1 THEN parts[1]
  ELSE parts[1] \o sep \o Join(Tail(parts), sep)

RECURSIVE PyRepr(_)
\* repr(x): what str() of a container shows of its items
PyRepr(x) ==
  CASE x.t = "none" -> <<"N", "o", "n", "e">>
    [] x.t = "bool" -> IF x.v THEN <<"T", "r", "u", "e">> ELSE <<"F", "a", "l", "s", "e">>
    [] x.t = "int" -> IntStr(x.v)
    [] x.t = "str" -> <<"'">> \o x.v \o <<"'">>
    [] x.t = "list" ->
         <<"[">> \o Join([j \in 1..Len(x.v) |-> PyRepr(x.v[j])], <<",", " ">>) \o <<"]">>
    [] x.t = "dict" ->
         <<"{">> \o Join([j \in 1..Len(x.v) |->
                            <<"'">> \o KeyChars(x.v[j][1]) \o <<"'", ":", " ">> \o PyRepr(x.v[j][2])],
                         <<",", " ">>) \o <<"}">>

\* str(x)
PyStr(x) == IF x.t = "str" THEN x.v ELSE PyRepr(x)

RECURSIVE JsonDumps(_)
\* json.dumps(x, ensure_ascii=False), for values whose strs need no escaping
JsonDumps(x) ==
  CASE x.t = "none" -> <<"n", "u", "l", "l">>
    [] x.t = "bool" -> IF x.v THEN <<"t", "r", "u", "e">> ELSE <<"f", "a", "l", "s", "e">>
    [] x.t = "int" -> IntStr(x.v)
    [] x.t = "str" -> <<"\"">> \o x.v \o <<"\"">>
    [] x.t = "list" ->
         <<"[">> \o Join([j \in 1..Len(x.v) |-> JsonDumps(x.v[j])], <<",", " ">>) \o <<"]">>
    [] x.t = "dict" ->
         <<"{">> \o Join([j \in 1..Len(x.v) |->
                            <<"\"">> \o KeyChars(x.v[j][1]) \o <<"\"", ":", " ">> \o JsonDumps(x.v[j][2])],
                         <<",", " ">>) \o <<"}">>

(***************************************************************************)
(* LoCoMo dumper: _first_present, _to_str, _normalize_example.             *)
(***************************************************************************)
RECURSIVE first_present_truthy(_, _)
\* first_present with `if d.get(k)` in place of `is not None`
first_present_truthy(d, keys) ==
  IF Len(keys) = 0 THEN NoneV
  ELSE IF HasKey(d, Head(keys)) /\ Truthy(Get(d, Head(keys))) THEN Get(d, Head(keys))
  ELSE first_present_truthy(d, Tail(keys))

RECURSIVE first_present(_, _)
\* for k in keys: if k in d and d[k] is not None: return d[k]; return None
first_present(d, keys) ==
  IF Len(keys) = 0 THEN NoneV
  ELSE IF HasKey(d, Head(keys)) /\ ~IsNone(Get(d, Head(keys))) THEN Get(d, Head(keys))
  ELSE first_present(d, Tail(keys))

to_str(x) ==
  IF IsNone(x) THEN <<>>
  ELSE IF x.t \in {"dict", "list"} THEN JsonDumps(x)
  ELSE PyStr(x)

QuestionKeys == <<"question", "query", "input", "prompt", "instruction">>
AnswerKeys == <<"answer", "label", "ground_truth", "target", "output">>
ContextKeys == <<"context", "document", "passage", "history", "long_context", "source_text", "docs">>
QidKeys == <<"question_id", "qid", "id", "uid", "sample_id", "example_id">>
QtypeKeys == <<"question_type", "type", "category", "tag">>
AbstentionKeys == <<"abstention", "is_abstention", "skip", "unanswerable">>

LocomoPrefix == <<"l", "o", "c", "o", "m", "o", "-">>

\* normalize_example numbering the examples from 1
normalize_example_from_one(e, index, tag) ==
  LET question == first_present(e, QuestionKeys)
      answer == first_present(e, AnswerKeys)
      context == first_present(e, ContextKeys)
      qid0 == first_present(e, QidKeys)
      qtype == first_present(e, QtypeKeys)
      abstention == first_present(e, AbstentionKeys)
      qid == IF IsNone(qid0) THEN StrV(LocomoPrefix \o IntStr(index + 1)) ELSE qid0
  IN [question |-> StrV(to_str(question)),
      answer |-> StrV(to_str(answer)),
      question_id |-> StrV(to_str(qid)),
      question_type |-> IF ~IsNone(qtype) THEN StrV(to_str(qtype)) ELSE NoneV,
      context |-> StrV(to_str(context)),
      source |-> tag,
      abstention |-> IF abstention.t = "bool" THEN BoolV(Truthy(abstention)) ELSE NoneV]

normalize_example(e, index, tag) ==
  LET question == first_present(e, QuestionKeys)
      answer == first_present(e, AnswerKeys)
      context == first_present(e, ContextKeys)
      qid0 == first_present(e, QidKeys)
      qtype == first_present(e, QtypeKeys)
      abstention == first_present(e, AbstentionKeys)
      qid == IF IsNone(qid0) THEN StrV(LocomoPrefix \o IntStr(index)) ELSE qid0
  IN [question |-> StrV(to_str(question)),
      answer |-> StrV(to_str(answer)),
      question_id |-> StrV(to_str(qid)),
      question_type |-> IF ~IsNone(qtype) THEN StrV(to_str(qtype)) ELSE NoneV,
      context |-> StrV(to_str(context)),
      source |-> tag,
      abstention |-> IF abstention.t = "bool" THEN BoolV(Truthy(abstention)) ELSE NoneV]

(***************************************************************************)
(* The raw examples the model draws from.                                  *)
(***************************************************************************)
Absent == [t |-> "absent", v |-> 0]

\* The item k: val of a dict literal, nothing when the key is left out
Opt(k, val) == IF val.t = "absent" THEN <<>> ELSE << <<k, val>> >>

IdValues == {Absent, NoneV, StrV(<<>>), StrV(<<"q", "1">>), ListV(<<StrV(<<"a">>)>>)}
LastIdValues == {Absent, IntV(7)}
AbstentionValues == {Absent, NoneV, BoolV(TRUE), IntV(0)}
UnanswerableValues == {Absent, BoolV(FALSE), StrV(<<"y", "e", "s">>)}

Examples ==
  { DictV(Opt("question_id", a) \o Opt("example_id", b)
          \o Opt("abstention", c) \o Opt("unanswerable", d)) :
      a \in IdValues, b \in LastIdValues, c \in AbstentionValues, d \in UnanswerableValues }

\* Rows a dataset can hold (mappings), and items a JSON file can hold (anything)
MainRows ==
  { DictV(<<>>),
    DictV(<< <<"question_id", NoneV>> >>),
    DictV(<< <<"question_id", StrV(<<"q", "1">>)>> >>),
    DictV(<< <<"example_id", IntV(7)>> >>) }
MainItems == MainRows \cup { StrV(<<"x">>) }

SeqsUpTo(S, n) == UNION { [1..k -> S] : k \in 0..n }

FromFileValues == {NoneV, StrV(<<>>), StrV(<<"d", "/", "f">>)}
DatasetIdValues == {NoneV, StrV(<<>>), StrV(<<"o", "/", "d">>)}
LimitValues == {NoneV} \cup { IntV(n) : n \in (0 - 1)..MaxExamples }
OutValues == {<<"o">>, <<"r", "/", "o">>}
DefaultSplit == <<"t", "e", "s", "t">>

\* What the file named by --from_file holds: a JSON value, or nothing readable
Unreadable == [t |-> "unreadable", v |-> 0]
FileContents ==
  { ListV(d) : d \in SeqsUpTo(MainItems, MaxExamples) }
    \cup { DictV(<< <<"data", ListV(d)>> >>) : d \in SeqsUpTo(MainItems, MaxExamples) }
    \cup { DictV(<< <<"data", IntV(1)>> >>), DictV(<< <<"question_id", StrV(<<"q", "1">>)>> >>),
           IntV(5), Unreadable }

\* What load_dataset yields: the rows, or nothing when the package is missing
HfContents == { ListV(d) : d \in SeqsUpTo(MainRows, MaxExamples) } \cup { Unreadable }

(***************************************************************************)
(* LoCoMo dumper: the loaders and main.                                    *)
(***************************************************************************)
Raise == [t |-> "raise", v |-> 0]

\* _load_from_file on a file holding content
load_from_file(content) ==
  IF content.t = "unreadable" THEN Raise
  ELSE IF content.t = "dict" /\ HasKey(content, "data") /\ Get(content, "data").t = "list"
    THEN Get(content, "data")
  ELSE IF content.t = "list" THEN content
  ELSE IF content.t = "dict" THEN ListV(<<content>>)
  ELSE Raise

\* _load_from_hf on a dataset holding content
load_from_hf(content) ==
  IF content.t = "unreadable" THEN Raise ELSE content

RECURSIVE LastSlash(_)
LastSlash(path) ==
  IF Len(path) = 0 THEN 0
  ELSE IF path[Len(path)] = "/" THEN Len(path)
  ELSE LastSlash(SubSeq(path, 1, Len(path) - 1))

\* os.path.basename and os.path.dirname (POSIX) of a path without repeated slashes
basename(path) == SubSeq(path, LastSlash(path) + 1, Len(path))
dirname(path) ==
  IF LastSlash(path) <= 1 THEN SubSeq(path, 1, LastSlash(path))
  ELSE SubSeq(path, 1, LastSlash(path) - 1)

Min(a, b) == IF a <= b THEN a ELSE b

\* select_source looking at --dataset_id first
select_source_dataset_first(a) ==
  IF Truthy(a.dataset_id) THEN "hf"
  ELSE IF Truthy(a.from_file) THEN "file"
  ELSE "usage"

\* The source main selects: if args.from_file ... else: if not args.dataset_id
select_source(a) ==
  IF Truthy(a.from_file) THEN "file"
  ELSE IF ~Truthy(a.dataset_id) THEN "usage"
  ELSE "hf"

\* raw[: min(limit, len(raw))] when limit is given and positive
apply_limit(items, limit) ==
  IF ~IsNone(limit) /\ limit.v > 0 THEN SubSeq(items, 1, Min(limit.v, Len(items)))
  ELSE items

MainLoadFile ==
  /\ prog = "locomo" /\ pc = "start"
  /\ select_source(args) = "file"
  /\ \E content \in FileContents :
       LET got == load_from_file(content) IN
         /\ loads' = [loads EXCEPT !.file = @ + 1]
         /\ IF got.t = "raise"
              THEN /\ pc' = "raised"
                   /\ exit_code' = 1
                   /\ UNCHANGED <<raw, source_tag>>
              ELSE /\ pc' = "loaded"
                   /\ raw' = got.v
                   /\ source_tag' = StrV(basename(args.from_file.v))
                   /\ UNCHANGED exit_code
  /\ UNCHANGED <<prog, normVars, mabVars, modelVars, serveVars, args, i, normalized, stderr, stdout, made_dirs, out_file>>

MainLoadHf ==
  /\ prog = "locomo" /\ pc = "start"
  /\ select_source(args) = "hf"
  /\ \E content \in HfContents :
       LET got == load_from_hf(content) IN
         /\ loads' = [loads EXCEPT !.hf = @ + 1]
         /\ IF got.t = "raise"
              THEN /\ pc' = "raised"
                   /\ exit_code' = 1
                   /\ stderr' = Append(stderr, "datasets package is required")
                   /\ UNCHANGED <<raw, source_tag>>
              ELSE /\ pc' = "loaded"
                   /\ raw' = got.v
                   /\ source_tag' = StrV(args.dataset_id.v \o <<":">> \o args.split)
                   /\ UNCHANGED <<exit_code, stderr>>
  /\ UNCHANGED <<prog, normVars, mabVars, modelVars, serveVars, args, i, normalized, stdout, made_dirs, out_file>>

MainUsageError ==
  /\ prog = "locomo" /\ pc = "start"
  /\ select_source(args) = "usage"
  /\ stderr' = Append(stderr, "Provide --dataset_id or --from_file")
  /\ exit_code' = 2
  /\ pc' = "exited"
  /\ UNCHANGED <<prog, normVars, mabVars, modelVars, serveVars, args, raw, source_tag, i, normalized, loads, stdout,
                 made_dirs, out_file>>

MainLimit ==
  /\ prog = "locomo" /\ pc = "loaded"
  /\ raw' = apply_limit(raw, args.limit)
  /\ pc' = "limited"
  /\ UNCHANGED <<prog, normVars, mabVars, modelVars, serveVars, args, source_tag, i, normalized, loads, stderr, stdout,
                 exit_code, made_dirs, out_file>>

MainMakeDirs ==
  /\ prog = "locomo" /\ pc = "limited"
  /\ made_dirs' = made_dirs \cup
       {IF Len(dirname(args.out)) > 0 THEN dirname(args.out) ELSE <<".">>}
  /\ i' = 0
  /\ normalized' = <<>>
  /\ pc' = "loop"
  /\ UNCHANGED <<prog, normVars, mabVars, modelVars, serveVars, args, raw, source_tag, loads, stderr, stdout, exit_code,
                 out_file>>

\* for i, ex in enumerate(raw): one iteration
MainNormalizeOne ==
  /\ prog = "locomo" /\ pc = "loop" /\ i < Len(raw)
  /\ LET item == raw[i + 1]
         e == IF item.t # "dict" THEN DictV(<< <<"value", item>> >>) ELSE item
     IN normalized' = Append(normalized, normalize_example(e, i, source_tag))
  /\ i' = i + 1
  /\ UNCHANGED <<prog, normVars, mabVars, modelVars, serveVars, args, pc, raw, source_tag, loads, stderr, stdout,
                 exit_code, made_dirs, out_file>>

MainWrite ==
  /\ prog = "locomo" /\ pc = "loop" /\ i = Len(raw)
  /\ out_file' = ListV(normalized)
  /\ stdout' = Append(stdout, <<"Wrote", Len(normalized)>>)
  /\ exit_code' = 0
  /\ pc' = "done"
  /\ UNCHANGED <<prog, normVars, mabVars, modelVars, serveVars, args, raw, source_tag, i, normalized, loads, stderr,
                 made_dirs>>


(***************************************************************************)
(* MemoryAgentBench dumper: load_references.                               *)
(***************************************************************************)
RECURSIVE fnmatch(_, _)
\* fnmatch.fnmatch(name, pat) on POSIX, for patterns of literals, * and ?
\* (the patterns drawn hold no bracket expression)
fnmatch(name, pat) ==
  IF Len(pat) = 0 THEN Len(name) = 0
  ELSE IF Head(pat) = "*"
    THEN fnmatch(name, Tail(pat)) \/ (Len(name) > 0 /\ fnmatch(Tail(name), pat))
  ELSE IF Head(pat) = "?"
    THEN Len(name) > 0 /\ fnmatch(Tail(name), Tail(pat))
  ELSE Len(name) > 0 /\ Head(name) = Head(pat) /\ fnmatch(Tail(name), Tail(pat))

\* x or default
OrElse(x, default) == IF Truthy(x) THEN x ELSE default

\* isinstance(src, str) and fnmatch.fnmatch(src, source_pattern)
source_matches(src, pat) == src.t = "str" /\ fnmatch(src.v, pat)

\* n = min(len(questions), len(answers), len(qids), len(qtypes))
item_count(questions, answers, qids, qtypes) ==
  Min(Min(Len(questions.v), Len(answers.v)), Min(Len(qids.v), Len(qtypes.v)))

AbsMark == <<"_", "a", "b", "s">>

\* make_ref taking answers[0] for every index
make_ref_first_answer(c, k) ==
  [question |-> StrV(PyStr(c.questions.v[k + 1])),
   answer |-> StrV(PyStr(c.answers.v[1])),
   question_id |-> StrV(PyStr(c.qids.v[k + 1])),
   question_type |-> StrV(PyStr(c.qtypes.v[k + 1])),
   context |-> StrV(PyStr(c.context)),
   source |-> StrV(PyStr(c.src)),
   abstention |-> BoolV(Contains(PyStr(c.qids.v[k + 1]), AbsMark))]

\* The dict appended for index k (0-based) of an entry's arrays
make_ref(c, k) ==
  [question |-> StrV(PyStr(c.questions.v[k + 1])),
   answer |-> StrV(PyStr(c.answers.v[k + 1])),
   question_id |-> StrV(PyStr(c.qids.v[k + 1])),
   question_type |-> StrV(PyStr(c.qtypes.v[k + 1])),
   context |-> StrV(PyStr(c.context)),
   source |-> StrV(PyStr(c.src)),
   abstention |-> BoolV(Contains(PyStr(c.qids.v[k + 1]), AbsMark))]

\* The locals an iteration computes from its entry (lines 34-45)
entry_locals(e) ==
  LET meta == OrElse(GetOr(e, "metadata", NoneV), DictV(<<>>))
      questions == OrElse(GetOr(e, "questions", NoneV), ListV(<<>>))
      answers == OrElse(GetOr(e, "answers", NoneV), ListV(<<>>))
      qids == OrElse(GetOr(meta, "question_ids", NoneV), ListV(<<>>))
      qtypes == OrElse(GetOr(meta, "question_types", NoneV), ListV(<<>>))
  IN [src |-> GetOr(meta, "source", StrV(<<>>)),
      questions |-> questions, answers |-> answers, qids |-> qids, qtypes |-> qtypes,
      context |-> OrElse(GetOr(e, "context", NoneV), StrV(<<>>)),
      n |-> item_count(questions, answers, qids, qtypes)]

NoLocals == [src |-> NoneV, questions |-> NoneV, answers |-> NoneV, qids |-> NoneV,
             qtypes |-> NoneV, context |-> NoneV, n |-> 0]

(***************************************************************************)
(* The dataset entries the model draws from.  The strings of the entry at  *)
(* position p carry p, so that no two entries of a dataset are alike.      *)
(***************************************************************************)
Str2(c, a, b) == StrV(<<c, Digit(a), Digit(b)>>)

\* An array of k strings, or the way of having none that `missing` names
ArrayOf(c, p, k, missing) ==
  IF k = 0 THEN missing ELSE ListV([j \in 1..k |-> Str2(c, p, j)])

\* Ids that are not plain strings: an empty one, one marked _abs, an int
OddId(p, j) ==
  CASE j = 1 -> StrV(<<>>)
    [] j = 2 -> StrV(<<Digit(p)>> \o AbsMark)
    [] OTHER -> IntV(10 * p + j)

\* The ids of an entry: plain strings, or the odd ones
IdArray(p, k, odd) ==
  IF k = 0 THEN ListV(<<>>)
  ELSE ListV([j \in 1..k |-> IF odd THEN OddId(p, j) ELSE Str2("i", p, j)])

\* The lengths <<questions, answers, question_ids, question_types>> drawn: all
\* four alike, or one array shorter than the other three
Shapes ==
  { <<k, k, k, k>> : k \in 0..MaxArr }
    \cup { [w \in 1..4 |-> IF w = short THEN k ELSE MaxArr] :
             short \in 1..4, k \in 0..(MaxArr - 1) }

MabEntry(meta, questions, answers, context) ==
  DictV(Opt("context", context) \o Opt("questions", questions) \o Opt("answers", answers)
        \o Opt("metadata", meta))

MabMeta(src, qids, qtypes) ==
  DictV(Opt("source", src) \o Opt("question_ids", qids) \o Opt("question_types", qtypes))

Sources == {StrV(<<"s", "1">>), StrV(<<"o", "t">>)}
OddSources == {Absent, NoneV, IntV(3)}
Patterns == {<<"s", "*">>, <<"*">>, <<"?", "t">>}

FullIds(p) == ListV([j \in 1..MaxArr |-> Str2("i", p, j)])
FullTypes(p) == ListV([j \in 1..MaxArr |-> Str2("t", p, j)])
FullQuestions(p) == ListV([j \in 1..MaxArr |-> Str2("q", p, j)])
FullAnswers(p) == ListV([j \in 1..MaxArr |-> Str2("a", p, j)])

EntriesAt(p) ==
  { MabEntry(MabMeta(src, IdArray(p, sh[3], odd), ArrayOf("t", p, sh[4], Absent)),
             ArrayOf("q", p, sh[1], Absent), ArrayOf("a", p, sh[2], NoneV), Str2("c", p, 0)) :
      src \in Sources, sh \in Shapes, odd \in BOOLEAN }
    \cup { MabEntry(MabMeta(src, FullIds(p), FullTypes(p)),
                    FullQuestions(p), FullAnswers(p), Str2("c", p, 0)) : src \in OddSources }
    \cup { MabEntry(meta, FullQuestions(p), FullAnswers(p), context) :
             meta \in {Absent, NoneV}, context \in {Absent, Str2("c", p, 0)} }
    \cup { MabEntry(MabMeta(src, FullIds(p), FullTypes(p)),
                    FullQuestions(p), FullAnswers(p), Absent) : src \in Sources }

(***************************************************************************)
(* What an entry is to contribute, stated from the arrays themselves: for  *)
(* an entry whose metadata.source (read as the empty string when the       *)
(* entry has none) is a string matching the pattern, one record per index  *)
(* below the length of the shortest of the four arrays; otherwise nothing. *)
(***************************************************************************)
ArrayAt(d, k) ==
  IF d.t = "dict" /\ HasKey(d, k) /\ Get(d, k).t = "list" THEN Get(d, k).v ELSE <<>>

ExpectedRecords(e, pat) ==
  LET meta == IF HasKey(e, "metadata") THEN Get(e, "metadata") ELSE NoneV
      src == IF meta.t = "dict" /\ HasKey(meta, "source") THEN Get(meta, "source")
             ELSE StrV(<<>>)
      context == IF HasKey(e, "context") THEN Get(e, "context").v ELSE <<>>
      questions == ArrayAt(e, "questions")
      answers == ArrayAt(e, "answers")
      qids == ArrayAt(meta, "question_ids")
      qtypes == ArrayAt(meta, "question_types")
      lens == {Len(questions), Len(answers), Len(qids), Len(qtypes)}
      shortest == CHOOSE k \in lens : \A l \in lens : k <= l
  IN IF src.t = "str" /\ fnmatch(src.v, pat)
       THEN [j \in 1..shortest |->
               [question |-> StrV(PyStr(questions[j])),
                answer |-> StrV(PyStr(answers[j])),
                question_id |-> StrV(PyStr(qids[j])),
                question_type |-> StrV(PyStr(qtypes[j])),
                context |-> StrV(context),
                source |-> src,
                abstention |-> BoolV(Contains(PyStr(qids[j]), AbsMark))]]
       ELSE <<>>

\* for entry in ds: the filter and the locals of one iteration (lines 33-47)
MabNextEntry ==
  /\ prog = "mab" /\ mpc = "entries" /\ consumed < MaxEntries
  /\ \E e \in EntriesAt(consumed + 1) :
       LET c == entry_locals(e) IN
         /\ consumed' = consumed + 1
         /\ expected' = expected \o ExpectedRecords(e, source_pattern)
         /\ IF source_matches(c.src, source_pattern) /\ c.n # 0
              THEN cur' = c /\ mi' = 0 /\ mpc' = "items"
              ELSE UNCHANGED <<cur, mi, mpc>>
  /\ UNCHANGED <<prog, normVars, mainVars, modelVars, serveVars, source_pattern, refs>>

\* for i in range(n): one iteration (lines 49-62); str() of the values a
\* dataset holds does not raise, so the except branch is never taken
MabItem ==
  /\ prog = "mab" /\ mpc = "items" /\ mi < cur.n
  /\ refs' = Append(refs, make_ref(cur, mi))
  /\ mi' = mi + 1
  /\ UNCHANGED <<prog, normVars, mainVars, modelVars, serveVars, source_pattern, consumed, cur, mpc,
                 expected>>

\* range(n) is exhausted: on to the next entry (the iteration's locals are dead)
MabItemsDone ==
  /\ prog = "mab" /\ mpc = "items" /\ mi = cur.n
  /\ mpc' = "entries"
  /\ cur' = NoLocals /\ mi' = 0
  /\ UNCHANGED <<prog, normVars, mainVars, modelVars, serveVars, source_pattern, consumed, refs, expected>>

\* the dataset is exhausted: return refs
MabReturn ==
  /\ prog = "mab" /\ mpc = "entries"
  /\ mpc' = "returned"
  /\ UNCHANGED <<prog, normVars, mainVars, modelVars, serveVars, source_pattern, consumed, cur, mi, refs,
                 expected>>

(***************************************************************************)
(* Inference handler: model_fn.  A call is a caller's walk through         *)
(*   check   if _MODEL is None                                             *)
(*   load    the environment reads and the CrossEncoder constructor        *)
(*   assign  _MODEL = <the constructed handle>                             *)
(*   return  return _MODEL                                                 *)
(* The serving host ("serve") and the serial driver ("model") have one     *)
(* caller, so their calls follow one another; "threads" has MaxThreads     *)
(* callers whose steps interleave.                                         *)
(***************************************************************************)
Callers == IF prog = "threads" THEN 1..MaxThreads ELSE {1}

DefaultModelId ==
  <<"B", "A", "A", "I", "/", "b", "g", "e", "-", "r", "e", "r", "a", "n", "k", "e", "r", "-", "l", "a", "r", "g", "e">>
DefaultMaxLength == <<"1", "0", "2", "4">>

ModelIdValues == {Absent, StrV(<<"m", "2">>)}
MaxLengthValues == {Absent, StrV(<<"5", "1", "2">>), StrV(<<"a", "b", "c">>)}
EnvValues == [HF_MODEL_ID : ModelIdValues, MAX_INPUT_LENGTH : MaxLengthValues]
ModelDirs == {<<"/", "o", "p", "t">>, <<"/", "x">>}

\* os.environ.get(name, default)
environ_get(e, name, default) == IF e[name].t = "absent" THEN default ELSE e[name].v

DigitValue(c) == CHOOSE n \in 0..9 : Digit(n) = c

IsDigits(cs) ==
  Len(cs) > 0 /\ \A j \in 1..Len(cs) : \E n \in 0..9 : Digit(n) = cs[j]

RECURSIVE DigitsValue(_)
DigitsValue(cs) ==
  IF Len(cs) = 0 THEN 0
  ELSE 10 * DigitsValue(SubSeq(cs, 1, Len(cs) - 1)) + DigitValue(cs[Len(cs)])

\* int(text) for a text of decimal digits; any other text drawn raises ValueError
parse_int(cs) == IF IsDigits(cs) THEN IntV(DigitsValue(cs)) ELSE Raise

\* CrossEncoder(model_id, max_length=max_length, device=device): the handle
\* constructed, the serial-th of the process
CrossEncoder(model_id, max_length, device, serial) ==
  [t |-> "model",
   v |-> [serial |-> serial, model_id |-> model_id, max_length |-> max_length,
          device |-> device]]

\* if _MODEL is None
model_is_none(m) == IsNone(m)

\* The callers between their None check and their assignment
Loading == { c \in Callers : cpc[c] \in {"load", "assign"} }

ModelFnCall(c) ==
  /\ prog \in {"serve", "model", "threads"} /\ c \in Callers
  /\ cpc[c] = "idle" /\ calls < MaxCalls
  /\ prog = "serve" => calls = 0
  /\ \E model_dir \in ModelDirs :
       /\ cpc' = [cpc EXCEPT ![c] = "check"]
       /\ calls' = calls + 1
  /\ UNCHANGED <<prog, normVars, mainVars, mabVars, serveVars, MODEL, env, cuda, env_changes,
                 local, constructs, env_reads, returned, raced>>

\* ModelFnCheck without the `if _MODEL is None`: every call loads
ModelFnCheckAlways(c) ==
  /\ prog \in {"serve", "model", "threads"} /\ c \in Callers
  /\ cpc[c] = "check"
  /\ cpc' = [cpc EXCEPT ![c] = "load"]
  /\ raced' = (raced \/ Loading # {})
  /\ UNCHANGED <<prog, normVars, mainVars, mabVars, serveVars, MODEL, env, cuda, env_changes,
                 calls, local, constructs, env_reads, returned>>

ModelFnCheck(c) ==
  /\ prog \in {"serve", "model", "threads"} /\ c \in Callers
  /\ cpc[c] = "check"
  /\ IF model_is_none(MODEL)
       THEN /\ cpc' = [cpc EXCEPT ![c] = "load"]
            /\ raced' = (raced \/ Loading # {})
       ELSE /\ cpc' = [cpc EXCEPT ![c] = "return"]
            /\ UNCHANGED raced
  /\ UNCHANGED <<prog, normVars, mainVars, mabVars, serveVars, MODEL, env, cuda, env_changes,
                 calls, local, constructs, env_reads, returned>>

\* lines 15-18, up to the constructor's return; int() or the constructor may raise,
\* and the call then ends without a handle
ModelFnLoad(c) ==
  /\ prog \in {"serve", "model", "threads"} /\ c \in Callers
  /\ cpc[c] = "load"
  /\ env_reads' = env_reads + 1
  /\ LET model_id == environ_get(env, "HF_MODEL_ID", DefaultModelId)
         max_length == parse_int(environ_get(env, "MAX_INPUT_LENGTH", DefaultMaxLength))
     IN IF max_length.t = "raise"
          THEN /\ cpc' = [cpc EXCEPT ![c] = "idle"]
               /\ UNCHANGED <<local, constructs>>
          ELSE \E built \in BOOLEAN :
                 IF built
                   THEN /\ local' = [local EXCEPT ![c] =
                               CrossEncoder(model_id, max_length.v,
                                            IF cuda THEN "cuda" ELSE "cpu", constructs + 1)]
                        /\ constructs' = constructs + 1
                        /\ cpc' = [cpc EXCEPT ![c] = "assign"]
                   ELSE /\ cpc' = [cpc EXCEPT ![c] = "idle"]
                        /\ UNCHANGED <<local, constructs>>
  /\ UNCHANGED <<prog, normVars, mainVars, mabVars, serveVars, MODEL, env, cuda, env_changes,
                 calls, returned, raced>>

\* ModelFnAssign without `global _MODEL`: the handle stays in a local
ModelFnAssignLocal(c) ==
  /\ prog \in {"serve", "model", "threads"} /\ c \in Callers
  /\ cpc[c] = "assign"
  /\ cpc' = [cpc EXCEPT ![c] = "return"]
  /\ UNCHANGED <<prog, normVars, mainVars, mabVars, serveVars, MODEL, env, cuda, env_changes,
                 calls, local, constructs, env_reads, returned, raced>>

ModelFnAssign(c) ==
  /\ prog \in {"serve", "model", "threads"} /\ c \in Callers
  /\ cpc[c] = "assign"
  /\ MODEL' = local[c]
  /\ local' = [local EXCEPT ![c] = NoneV]
  /\ cpc' = [cpc EXCEPT ![c] = "return"]
  /\ UNCHANGED <<prog, normVars, mainVars, mabVars, serveVars, env, cuda, env_changes, calls,
                 constructs, env_reads, returned, raced>>

ModelFnReturn(c) ==
  /\ prog \in {"serve", "model", "threads"} /\ c \in Callers
  /\ cpc[c] = "return"
  /\ returned' = Append(returned, MODEL)
  /\ cpc' = [cpc EXCEPT ![c] = "idle"]
  /\ UNCHANGED <<prog, normVars, mainVars, mabVars, serveVars, MODEL, env, cuda, env_changes,
                 calls, local, constructs, env_reads, raced>>

\* The process's environment changes between two calls
SetEnv ==
  /\ prog = "model"
  /\ env_changes < MaxEnvChanges
  /\ cpc[1] = "idle"
  /\ \E e \in EnvValues : e # env /\ env' = e
  /\ env_changes' = env_changes + 1
  /\ UNCHANGED <<prog, normVars, mainVars, mabVars, serveVars, MODEL, cuda, calls, cpc, local,
                 constructs, env_reads, returned, raced>>

(***************************************************************************)
(* Inference handler: input_fn, predict_fn, output_fn.                     *)
(***************************************************************************)
Ok(query, passages) == [t |-> "ok", v |-> [query |-> query, passages |-> passages]]
Err(type, msg) == [t |-> "error", v |-> [type |-> type, msg |-> msg]]

UnsupportedContentType == "Unsupported content type"
EmptyRequestBody == "Empty request body"
ExpectedPairs == "Expected non-empty list of [query, passage] pairs"
ExpectedPassages == "Expected list of passages"
UnsupportedPayload == "Unsupported payload format"

\* key in x: "T", "F", or "TypeError" when x is not a container
PyIn(key, x) ==
  CASE x.t = "dict" -> IF HasKey(x, key) THEN "T" ELSE "F"
    [] x.t = "str" -> IF Contains(x.v, KeyChars(key)) THEN "T" ELSE "F"
    [] x.t = "list" ->
         IF \E j \in 1..Len(x.v) : x.v[j].t = "str" /\ x.v[j].v = KeyChars(key)
           THEN "T" ELSE "F"
    [] OTHER -> "TypeError"

\* _normalize_iterable(value); JSON holds no tuple, so a non-list raises
normalize_iterable(value) == IF value.t = "list" THEN value ELSE Raise

\* [str(p) for p in items]
StrAll(items) == [j \in 1..Len(items) |-> PyStr(items[j])]

\* tuple(item): the items of a list, the characters of a str, the keys of a dict
to_tuple(item) ==
  CASE item.t = "list" -> ListV(item.v)
    [] item.t = "str" -> ListV([j \in 1..Len(item.v) |-> StrV(<<item.v[j]>>)])
    [] item.t = "dict" -> ListV([j \in 1..Len(item.v) |-> StrV(KeyChars(item.v[j][1]))])
    [] OTHER -> Raise

\* lines 43-52: the list branch and the final raise
parse_list(payload) ==
  IF payload.t = "list"
    THEN LET pairs == [j \in 1..Len(payload.v) |-> to_tuple(payload.v[j])] IN
           IF \E j \in 1..Len(pairs) : pairs[j].t = "raise" THEN Err("TypeError", "")
           ELSE IF Len(pairs) = 0 THEN Err("ValueError", ExpectedPairs)
           ELSE IF Len(pairs[1].v) < 1 THEN Err("IndexError", "")
           ELSE IF \E j \in 1..Len(pairs) : Len(pairs[j].v) < 2 THEN Err("IndexError", "")
           ELSE Ok(PyStr(pairs[1].v[1]), [j \in 1..Len(pairs) |-> PyStr(pairs[j].v[2])])
    ELSE Err("ValueError", UnsupportedPayload)

\* lines 38-41, for the payload left after the inputs unwrapping
parse_query_passages(payload) ==
  IF PyIn("query", payload) = "TypeError" THEN Err("TypeError", "")
  ELSE IF PyIn("query", payload) = "T" /\ PyIn("passages", payload) = "T"
    THEN IF payload.t # "dict" THEN Err("TypeError", "")
         ELSE LET it == normalize_iterable(Get(payload, "passages")) IN
                IF it.t = "raise" THEN Err("ValueError", ExpectedPassages)
                ELSE Ok(PyStr(Get(payload, "query")), StrAll(it.v))
  ELSE parse_list(payload)

\* lines 31-52, for the decoded payload
parse_payload(decoded) ==
  IF decoded.t = "dict"
    THEN LET payload == IF HasKey(decoded, "inputs") THEN Get(decoded, "inputs") ELSE decoded IN
           IF payload.t = "dict" /\ HasKey(payload, "source_sentence")
                /\ HasKey(payload, "sentences")
             THEN LET it == normalize_iterable(Get(payload, "sentences")) IN
                    IF it.t = "raise" THEN Err("ValueError", ExpectedPassages)
                    ELSE Ok(PyStr(Get(payload, "source_sentence")), StrAll(it.v))
             ELSE parse_query_passages(payload)
    ELSE parse_list(decoded)

\* A request body: the empty text, a text that is no JSON, or the JSON text of a value
EmptyBody == [t |-> "empty", v |-> 0]
BadJson == [t |-> "badjson", v |-> 0]
JsonText(value) == [t |-> "json", v |-> value]

JsonMark == <<"j", "s", "o", "n">>

input_fn(request_body, request_content_type) ==
  IF Len(request_content_type) > 0 /\ ~Contains(request_content_type, JsonMark)
    THEN Err("ValueError", UnsupportedContentType)
  ELSE IF request_body.t = "empty" THEN Err("ValueError", EmptyRequestBody)
  ELSE IF request_body.t = "badjson" THEN Err("JSONDecodeError", "")
  ELSE parse_payload(request_body.v)

\* model.predict(pairs): the CrossEncoder's score of each pair, in order
Score(pair) == [query |-> pair[1], passage |-> pair[2]]
model_predict(pairs) == [j \in 1..Len(pairs) |-> Score(pairs[j])]

\* predict_fn without the `if not passages` return
predict_fn_no_guard(d) ==
  LET pairs == [j \in 1..Len(d.passages) |-> <<d.query, d.passages[j]>>] IN
    [scores |-> model_predict(pairs), invoked |-> TRUE]

\* predict_fn(data, model): the scores returned, and whether model.predict ran
predict_fn(d) ==
  IF Len(d.passages) = 0 THEN [scores |-> <<>>, invoked |-> FALSE]
  ELSE LET pairs == [j \in 1..Len(d.passages) |-> <<d.query, d.passages[j]>>] IN
         [scores |-> model_predict(pairs), invoked |-> TRUE]

DefaultAccept ==
  <<"a", "p", "p", "l", "i", "c", "a", "t", "i", "o", "n", "/", "j", "s", "o", "n">>

\* output_fn(prediction, accept): the body is the JSON text of {"scores": prediction}
output_fn(prediction, accept) ==
  [body |-> JsonText([scores |-> prediction]),
   content_type |-> IF Len(accept) > 0 THEN accept ELSE DefaultAccept]

(***************************************************************************)
(* The requests the model draws from.                                      *)
(***************************************************************************)
Q == StrV(<<"q">>)
Q2 == StrV(<<"r">>)
P1 == StrV(<<"p", "1">>)
P2 == StrV(<<"p", "2">>)
QueryPassagesText == StrV(KeyChars("query") \o <<" ">> \o KeyChars("passages"))

PassageValues == {Absent, ListV(<<P1, P2>>), ListV(<<>>), ListV(<<IntV(3)>>), StrV(<<"a", "b">>)}
SentenceValues == {Absent, ListV(<<P1, P2>>), NoneV}
QueryValues == {Absent, Q}
SourceSentenceValues == {Absent, Q, IntV(7)}

PairLists ==
  { ListV(<<>>),
    ListV(<<ListV(<<Q, P1>>), ListV(<<Q, P2>>)>>),
    ListV(<<ListV(<<Q, P1>>), ListV(<<Q2, P2>>)>>),
    ListV(<<ListV(<<Q, P1, P2>>)>>),
    ListV(<<ListV(<<Q>>)>>),
    ListV(<<ListV(<<>>)>>),
    ListV(<<ListV(<<Q, P1>>), ListV(<<Q>>)>>),
    ListV(<<IntV(5)>>),
    ListV(<<StrV(<<"a", "b">>)>>),
    ListV(<<StrV(KeyChars("query")), StrV(KeyChars("passages"))>>) }

InnerDicts ==
  { DictV(<<>>),
    DictV(<< <<"source_sentence", Q>>, <<"sentences", ListV(<<P1, P2>>)>> >>),
    DictV(<< <<"source_sentence", Q>>, <<"sentences", StrV(<<"a", "b">>)>> >>),
    DictV(<< <<"source_sentence", Q>> >>),
    DictV(<< <<"query", Q>>, <<"passages", ListV(<<P1, P2>>)>> >>) }

InputsValues ==
  {Absent, IntV(5), NoneV, StrV(<<"h", "i">>), QueryPassagesText}
    \cup InnerDicts
    \cup { ListV(<<ListV(<<Q, P1>>)>>), ListV(<<>>),
           ListV(<<StrV(KeyChars("query")), StrV(KeyChars("passages"))>>) }

Payloads ==
  { DictV(Opt("inputs", a) \o Opt("source_sentence", b) \o Opt("sentences", c)
          \o Opt("query", d) \o Opt("passages", e)) :
      a \in InputsValues, b \in SourceSentenceValues, c \in SentenceValues,
      d \in QueryValues, e \in PassageValues }
    \cup PairLists
    \cup { IntV(5), NoneV, StrV(<<"h", "i">>), BoolV(TRUE) }

Bodies == { JsonText(x) : x \in Payloads } \cup { EmptyBody, BadJson }
ContentTypes == {<<>>, DefaultAccept, <<"t", "/", "c", "s", "v">>}
Accepts == {<<>>, <<"t", "/", "x">>}

NoRequest == [body |-> EmptyBody, content_type |-> <<>>]

\* The host takes a request and calls input_fn
InputFn ==
  /\ prog = "serve" /\ spc = "ready"
  /\ ~IsNone(MODEL) /\ cpc[1] = "idle"
  /\ served < MaxRequests
  /\ \E body \in Bodies, ctype \in ContentTypes :
       /\ request' = [body |-> body, content_type |-> ctype]
       /\ data' = input_fn(body, ctype)
       /\ spc' = IF input_fn(body, ctype).t = "ok" THEN "parsed" ELSE "failed"
  /\ served' = served + 1
  /\ UNCHANGED <<prog, normVars, mainVars, mabVars, modelVars, scores, predict_calls,
                 response>>

\* The host calls predict_fn with what input_fn gave and the loaded model
PredictFn ==
  /\ prog = "serve" /\ spc = "parsed"
  /\ scores' = predict_fn(data.v).scores
  /\ predict_calls' = predict_calls + (IF predict_fn(data.v).invoked THEN 1 ELSE 0)
  /\ spc' = "predicted"
  /\ UNCHANGED <<prog, normVars, mainVars, mabVars, modelVars, request, data, response,
                 served>>

OutputFn ==
  /\ prog = "serve" /\ spc = "predicted"
  /\ \E accept \in Accepts : response' = output_fn(scores, accept)
  /\ spc' = "responded"
  /\ UNCHANGED <<prog, normVars, mainVars, mabVars, modelVars, request, data, scores,
                 predict_calls, served>>

\* The host answers (with the response, or with the error raised) and is
\* ready for the next request; nothing of the request outlives it
EndRequest ==
  /\ prog = "serve" /\ spc \in {"failed", "responded"}
  /\ spc' = "ready"
  /\ request' = NoRequest /\ data' = NoneV /\ scores' = <<>> /\ response' = NoneV
  /\ UNCHANGED <<prog, normVars, mainVars, mabVars, modelVars, predict_calls, served>>

(***************************************************************************)
(* One call of _normalize_example on a drawn example.                      *)
(***************************************************************************)
NormalizeTag == StrV(<<"f">>)

Normalize ==
  /\ prog = "normalize" /\ rec = <<>>
  /\ rec' = <<normalize_example(ex, idx, NormalizeTag)>>
  /\ UNCHANGED <<prog, ex, idx, mainVars, mabVars, modelVars, serveVars>>

(***************************************************************************)
(* The specification.                                                      *)
(***************************************************************************)
NoArgs == [from_file |-> NoneV, dataset_id |-> NoneV, split |-> DefaultSplit,
           limit |-> NoneV, out |-> <<"o">>]

InitNorm ==
  /\ ex = DictV(<<>>) /\ idx = 0 /\ rec = <<>>

InitMab ==
  /\ source_pattern = <<"*">> /\ consumed = 0 /\ cur = NoLocals
  /\ mi = 0 /\ mpc = "entries" /\ refs = <<>> /\ expected = <<>>

InitMain ==
  /\ args = NoArgs /\ pc = "start" /\ raw = <<>> /\ source_tag = NoneV /\ i = 0
  /\ normalized = <<>> /\ loads = [file |-> 0, hf |-> 0] /\ stderr = <<>>
  /\ stdout = <<>> /\ exit_code = 0 - 1 /\ made_dirs = {} /\ out_file = NoneV

NoEnv == [HF_MODEL_ID |-> Absent, MAX_INPUT_LENGTH |-> Absent]

\* _MODEL = None at import, no call begun
InitModel ==
  /\ MODEL = NoneV /\ env = NoEnv /\ cuda = FALSE /\ env_changes = 0 /\ calls = 0
  /\ cpc = [c \in 1..MaxThreads |-> "idle"] /\ local = [c \in 1..MaxThreads |-> NoneV]
  /\ constructs = 0 /\ env_reads = 0 /\ returned = <<>> /\ raced = FALSE

InitServe ==
  /\ spc = "ready" /\ request = NoRequest /\ data = NoneV /\ scores = <<>>
  /\ predict_calls = 0 /\ response = NoneV /\ served = 0

Init ==
  \/ /\ prog = "normalize"
     /\ ex \in Examples /\ idx \in (0..MaxIdx) \cup {10 + MaxIdx} /\ rec = <<>>
     /\ InitMain /\ InitMab /\ InitModel /\ InitServe
  \/ /\ prog = "mab"
     /\ InitNorm /\ InitMain /\ InitModel /\ InitServe
     /\ source_pattern \in Patterns /\ consumed = 0 /\ cur = NoLocals
     /\ mi = 0 /\ mpc = "entries" /\ refs = <<>> /\ expected = <<>>
  \/ /\ prog = "locomo"
     /\ InitNorm /\ InitMab /\ InitModel /\ InitServe
     /\ args \in [from_file : FromFileValues, dataset_id : DatasetIdValues,
                  split : {DefaultSplit}, limit : LimitValues, out : OutValues]
     /\ pc = "start" /\ raw = <<>> /\ source_tag = NoneV /\ i = 0
     /\ normalized = <<>> /\ loads = [file |-> 0, hf |-> 0] /\ stderr = <<>>
     /\ stdout = <<>> /\ exit_code = 0 - 1 /\ made_dirs = {} /\ out_file = NoneV
  \/ /\ prog = "serve"
     /\ InitNorm /\ InitMain /\ InitMab /\ InitServe
     /\ env = NoEnv /\ cuda \in BOOLEAN
     /\ MODEL = NoneV /\ env_changes = 0 /\ calls = 0
     /\ cpc = [c \in 1..MaxThreads |-> "idle"] /\ local = [c \in 1..MaxThreads |-> NoneV]
     /\ constructs = 0 /\ env_reads = 0 /\ returned = <<>> /\ raced = FALSE
  \/ /\ prog \in {"model", "threads"}
     /\ InitNorm /\ InitMain /\ InitMab /\ InitServe
     /\ env \in EnvValues /\ cuda \in BOOLEAN
     /\ MODEL = NoneV /\ env_changes = 0 /\ calls = 0
     /\ cpc = [c \in 1..MaxThreads |-> "idle"] /\ local = [c \in 1..MaxThreads |-> NoneV]
     /\ constructs = 0 /\ env_reads = 0 /\ returned = <<>> /\ raced = FALSE

Next ==
  \/ Normalize
  \/ MainLoadFile
  \/ MainLoadHf
  \/ MainUsageError
  \/ MainLimit
  \/ MainMakeDirs
  \/ MainNormalizeOne
  \/ MainWrite
  \/ MabNextEntry
  \/ MabItem
  \/ MabItemsDone
  \/ MabReturn
  \/ \E c \in 1..MaxThreads : ModelFnCall(c)
  \/ \E c \in 1..MaxThreads : ModelFnCheck(c)
  \/ \E c \in 1..MaxThreads : ModelFnLoad(c)
  \/ \E c \in 1..MaxThreads : ModelFnAssign(c)
  \/ \E c \in 1..MaxThreads : ModelFnReturn(c)
  \/ SetEnv
  \/ InputFn
  \/ PredictFn
  \/ OutputFn
  \/ EndRequest

Spec == Init /\ [][Next]_vars

(***************************************************************************)
(* The claims.                                                             *)
(***************************************************************************)
\* The keys among `keys` under which e holds a value of type ty
KeysHolding(e, keys, ty) ==
  { j \in 1..Len(keys) : HasKey(e, keys[j]) /\ Get(e, keys[j]).t = ty }

\* The keys among `keys` under which e holds a value that is not None
KeysNotNull(e, keys) ==
  { j \in 1..Len(keys) : HasKey(e, keys[j]) /\ ~IsNone(Get(e, keys[j])) }

Least(S) == CHOOSE j \in S : \A k \in S : j <= k

\* No id-like key of the raw item holds a value that is not null
NoId(item) == item.t # "dict" \/ KeysNotNull(item, QidKeys) = {}

SynthesizedId(index) == StrV(LocomoPrefix \o IntStr(index))

\* C1: every reference record either dumper emits has a non-empty
\* question_id: the record _normalize_example returns, the records main
\* appends, and the records load_references appends.
C1_QuestionIdNonEmpty ==
  /\ \A j \in 1..Len(rec) : Len(rec[j].question_id.v) > 0
  /\ \A j \in 1..Len(normalized) : Len(normalized[j].question_id.v) > 0
  /\ \A j \in 1..Len(refs) : Len(refs[j].question_id.v) > 0

\* C2 as stated: when some abstention-like key holds a boolean, the
\* normalized abstention is the boolean of the first such key in list order,
\* whatever the other abstention-like keys hold; otherwise it is null.
C2_FirstBooleanKey ==
  \A j \in 1..Len(rec) :
    LET bools == KeysHolding(ex, AbstentionKeys, "bool") IN
      IF bools # {}
        THEN rec[j].abstention = Get(ex, AbstentionKeys[Least(bools)])
        ELSE IsNone(rec[j].abstention)

\* C2 amended: the normalized abstention is the value of the first
\* abstention-like key (in list order) that is present and not null, when
\* that value is a boolean; it is null when that value is not a boolean or
\* when no abstention-like key holds a non-null value.
C2_FirstNonNullIfBoolean ==
  \A j \in 1..Len(rec) :
    LET present == KeysNotNull(ex, AbstentionKeys) IN
      IF present # {} /\ Get(ex, AbstentionKeys[Least(present)]).t = "bool"
        THEN rec[j].abstention = Get(ex, AbstentionKeys[Least(present)])
        ELSE IsNone(rec[j].abstention)

\* C2's case: a non-boolean under an earlier key hides the boolean of a later one
C2_Witness ==
  /\ prog = "normalize" /\ Len(rec) = 1
  /\ HasKey(ex, "abstention") /\ Get(ex, "abstention").t = "int"
  /\ HasKey(ex, "unanswerable") /\ Get(ex, "unanswerable").t = "bool"
  /\ IsNone(rec[1].abstention)

\* C3: an example none of whose id-like keys holds a non-null value (a
\* non-mapping example among them) gets the question_id locomo-<i>, i its
\* 0-based position among the examples left after the --limit truncation;
\* so the synthesized ids of one run are pairwise distinct.
C3_SynthesizedIds ==
  /\ \A j \in 1..Len(rec) :
       NoId(ex) => rec[j].question_id = SynthesizedId(idx)
  /\ \A j \in 1..Len(normalized) :
       NoId(raw[j]) => normalized[j].question_id = SynthesizedId(j - 1)
  /\ \A j, k \in 1..Len(normalized) :
       (j # k /\ NoId(raw[j]) /\ NoId(raw[k]))
         => normalized[j].question_id # normalized[k].question_id
  /\ pc = "done" => (Len(normalized) = Len(raw) /\ out_file = ListV(normalized))

\* C3's case: a truncated run whose second example, a non-mapping, got locomo-1
C3_Witness ==
  /\ prog = "locomo" /\ pc = "done"
  /\ ~IsNone(args.limit) /\ args.limit.v = 2 /\ Len(normalized) = 2
  /\ raw[2].t # "dict" /\ NoId(raw[1])
  /\ normalized[2].question_id = StrV(LocomoPrefix \o <<"1">>)

\* C4: load_references returns, in dataset order, the records of the entries
\* whose metadata.source is a string matching the pattern: min(len) records
\* per entry, the i-th from the i-th element of each array and the entry's
\* context; the other entries, and the elements past the shortest array,
\* give nothing.  (While an entry's items are being appended, refs lacks
\* exactly the records of that entry still to come.)
C4_Concatenation ==
  prog = "mab" =>
    /\ mpc \in {"entries", "returned"} => refs = expected
    /\ mpc = "items" =>
         /\ Len(refs) = Len(expected) - (cur.n - mi)
         /\ refs = SubSeq(expected, 1, Len(refs))

\* C4's case: a second entry whose questions outnumber its shortest array
\* has given its n records, after a first entry gave some
C4_Witness ==
  /\ prog = "mab" /\ mpc = "items" /\ consumed = 2
  /\ mi = cur.n /\ cur.n >= 1 /\ Len(cur.questions.v) > cur.n
  /\ Len(refs) > cur.n

\* The requests input_fn parses: a JSON content type or none, a body that decodes
JsonRequest ==
  /\ prog = "serve" /\ spc \in {"parsed", "failed"}
  /\ (Len(request.content_type) = 0 \/ Contains(request.content_type, JsonMark))
  /\ request.body.t = "json"

\* The three accepted shapes
ShapeA(p) ==
  /\ p.t = "dict" /\ HasKey(p, "inputs") /\ Get(p, "inputs").t = "dict"
  /\ HasKey(Get(p, "inputs"), "source_sentence") /\ HasKey(Get(p, "inputs"), "sentences")
ShapeB(p) == p.t = "dict" /\ HasKey(p, "query") /\ HasKey(p, "passages")
ShapeC(p) ==
  /\ p.t = "list" /\ Len(p.v) > 0
  /\ \A j \in 1..Len(p.v) : p.v[j].t = "list" /\ Len(p.v[j].v) = 2

\* C5: predict_fn returns one score per passage, the i-th the model's score
\* of (query, passages[i]); for no passages it returns the empty sequence
\* and model.predict is not invoked; the payload {"query": q, "passages":
\* [p1, p2]} taken through input_fn gives the scores of p1 and p2, in order.
C5_ScoresInOrder ==
  [][(prog = "serve" /\ spc = "parsed" /\ spc' = "predicted") =>
       /\ Len(scores') = Len(data.v.passages)
       /\ \A j \in 1..Len(data.v.passages) :
            scores'[j] = Score(<<data.v.query, data.v.passages[j]>>)
       /\ Len(data.v.passages) = 0 => (scores' = <<>> /\ predict_calls' = predict_calls)
       /\ request.body = JsonText(DictV(<< <<"query", Q>>, <<"passages", ListV(<<P1, P2>>)>> >>))
            => scores' = <<Score(<<Q.v, P1.v>>), Score(<<Q.v, P2.v>>)>>]_vars

\* C5's case: the two-passage payload has been scored
C5_Witness ==
  /\ prog = "serve" /\ spc = "predicted"
  /\ request.body = JsonText(DictV(<< <<"query", Q>>, <<"passages", ListV(<<P1, P2>>)>> >>))
  /\ Len(scores) = 2 /\ predict_calls = 1

\* C6: with model_fn calls following one another, once _MODEL is set it is
\* never reset or replaced, no later step constructs a CrossEncoder or
\* reads the environment, and every call returns that one handle.
C6_Idempotent ==
  /\ [](prog = "model" =>
          /\ constructs <= 1
          /\ \A j \in 1..Len(returned) : returned[j] = MODEL /\ ~IsNone(MODEL))
  /\ [][(prog = "model" /\ ~IsNone(MODEL)) =>
          /\ MODEL' = MODEL
          /\ constructs' = constructs
          /\ env_reads' = env_reads]_vars

\* C6's case: a call that raised, a changed environment, then two calls
\* that returned the handle
C6_Witness ==
  /\ prog = "model" /\ calls = 3 /\ Len(returned) = 2 /\ env_changes = 1
  /\ constructs = 1 /\ cpc[1] = "idle"

\* C7: a decodable payload that matches none of the three shapes makes
\* input_fn fail with the descriptive ValueError: it returns no tuple and
\* raises no other exception.
C7_DescriptiveError ==
  (JsonRequest /\ ~ShapeA(request.body.v) /\ ~ShapeB(request.body.v)
     /\ ~ShapeC(request.body.v))
    => /\ data.t = "error"
       /\ data.v.type = "ValueError"
       /\ data.v.msg \in {UnsupportedPayload, ExpectedPairs, ExpectedPassages}

\* C8: input_fn returns the parse of the first matching shape in the order
\* (a), (b), (c); so an object with top-level query and a list passages
\* that does not match (a) is parsed from those two keys, whatever other
\* keys it carries.
C8_ShapeOrder ==
  JsonRequest =>
    LET p == request.body.v IN
      /\ (ShapeA(p) /\ Get(Get(p, "inputs"), "sentences").t = "list")
           => data = Ok(PyStr(Get(Get(p, "inputs"), "source_sentence")),
                        StrAll(Get(Get(p, "inputs"), "sentences").v))
      /\ (~ShapeA(p) /\ ShapeB(p) /\ Get(p, "passages").t = "list")
           => data = Ok(PyStr(Get(p, "query")), StrAll(Get(p, "passages").v))
      /\ ShapeC(p)
           => data = Ok(PyStr(p.v[1].v[1]), [j \in 1..Len(p.v) |-> PyStr(p.v[j].v[2])])

\* --from_file, --dataset_id: given with a non-empty value
Given(x) == x.t = "str" /\ Len(x.v) > 0

\* C9: a successful run of main ran exactly one loader, the file loader
\* when --from_file is given (--dataset_id given or not), else the remote
\* one; with neither given the process exits with code 2 after one message
\* on stderr, no loader run, no directory made, nothing written.
C9_OneSource ==
  prog = "locomo" =>
    /\ pc = "done" =>
         /\ exit_code = 0
         /\ loads.file + loads.hf = 1
         /\ Given(args.from_file) => loads.file = 1
         /\ ~Given(args.from_file) => (Given(args.dataset_id) /\ loads.hf = 1)
    /\ (~Given(args.from_file) /\ ~Given(args.dataset_id)) =>
         /\ loads = [file |-> 0, hf |-> 0] /\ made_dirs = {} /\ IsNone(out_file)
         /\ pc # "start" => (pc = "exited" /\ exit_code = 2 /\ Len(stderr) = 1)

\* C9's case: neither source given, the process has exited with code 2
C9_Witness ==
  /\ prog = "locomo" /\ pc = "exited" /\ exit_code = 2
  /\ IsNone(args.from_file) /\ IsNone(args.dataset_id)

\* C10 as stated: in every execution, interleaved ones among them, at most
\* one handle is constructed and all callers receive the same handle.
C10_AtMostOnce ==
  /\ constructs <= 1
  /\ \A j, k \in 1..Len(returned) : returned[j] = returned[k]

\* C10 amended: in every execution in which no call passes the None check
\* while another call is between its own check and its assignment, at most
\* one handle is constructed and all callers receive the same handle.
C10_AtMostOnceUnlessRaced ==
  ~raced =>
    /\ constructs <= 1
    /\ \A j, k \in 1..Len(returned) : returned[j] = returned[k]
    /\ \A j \in 1..Len(returned) : ~IsNone(returned[j])

\* C10's case: two callers inside model_fn at once, the second one having
\* found the handle the first one assigned
C10_Witness ==
  /\ prog = "threads" /\ ~raced /\ constructs = 1
  /\ cpc[1] = "return" /\ cpc[2] = "return"

=============================================================================
